---- MODULE Spec2Model ----
(***************************************************************************)
(* The judiciary staff-management backend: courts, staff and users behind  *)
(* the Express routes of src/routes, the Mongoose models of src/models and *)
(* the authentication middleware.  Every request is served by one handler; *)
(* a handler is one action, from its first middleware to its response.     *)
(*                                                                         *)
(* Encodings.  An ObjectId is a positive integer (documents are numbered   *)
(* in insertion order); NoId is a missing/undefined id, BadId a string     *)
(* that does not cast to an ObjectId, and an id above the number of stored *)
(* documents is well formed but resolves to nothing.  A string field is    *)
(* kept by its trimmed length.  A date is a positive integer; NoDate is    *)
(* undefined/null, BadDate a value that does not cast to a Date.  Absent   *)
(* is a key that the request body does not hold.  The paths of a document  *)
(* that no handler branches on (position, location, contact fields) hold a *)
(* valid value in every request and are left out of the records.           *)
(***************************************************************************)
EXTENDS Integers, FiniteSets, Sequences, TLC

VARIABLES
    strictQuery,   \* the Mongoose build's strictQuery default (6.x: TRUE, 7+: FALSE)
    users,         \* the User collection: id -> [role, circuitCourtId, isActive]
                   \* (with username and name where the user routes are served)
    courts,        \* the Court collection, in insertion order (index = _id)
    staff,         \* the Staff collection: _id -> document
    staffCreated,  \* how many Staff documents were ever inserted (next _id - 1)
    now,           \* the server clock (new Date())
    last,          \* the response of the request served last, until it is returned
    pending,       \* the requests in flight whose steps interleave: slot -> request
    memoryStore    \* the fallback store of server.js: null, or the MemoryStore object

vars == <<strictQuery, users, courts, staff, staffCreated, now, last, pending,
          memoryStore>>

-----------------------------------------------------------------------------
(* Bounds of the model *)

MaxCourts == 3
MaxStaff == 1
MaxDate == 2
MaxKeys == 2

-----------------------------------------------------------------------------
(* Values *)

NoId == 0
BadId == -1
Absent == -2
NoDate == 0
BadDate == -1

MinNameLen == 2
MaxNameLen == 100

Roles == {"admin", "circuit", "magisterial"}
CourtTypes == {"circuit", "magisterial"}
Statuses == {"active", "retired", "dismissed", "on_leave"}

UserIds == 1..3
Tokens == UserIds \cup {NoId}
Dates == 1..MaxDate
\* Name lengths a request may carry: too short, the shortest valid, another
\* valid one, and one above the schema's maxlength.
NameLens == {MinNameLen - 1, MinNameLen, MinNameLen + 1, MaxNameLen + 1}

CourtIdsIn == (1..(MaxCourts + 1)) \cup {NoId, BadId}

-----------------------------------------------------------------------------
(* Requests in flight.  A slot is free ("idle") or holds a request at the
   await it has reached. *)

MaxRequests == 2

FreeSlot == [pc |-> "idle", username |-> <<>>, status |-> 0]

NoPending == [r \in 1..MaxRequests |-> FreeSlot]

\* The database is connected: the fallback store is never loaded.
NoMemoryStore == "null"

-----------------------------------------------------------------------------
(* The response record.  Fields a handler does not use keep their default. *)

NoResp ==
    [op |-> "none", caller |-> NoId, status |-> 0, id |-> NoId, court |-> NoId,
     ctype |-> "none", newStatus |-> "none", date |-> NoDate, at |-> NoDate,
     name |-> Absent, list |-> {}, scope |-> {}, stats |-> <<0, 0, 0, 0, 0>>,
     access |-> "none", again |-> TRUE, role |-> "none", username |-> <<>>]

Resp(op, caller, status) ==
    [NoResp EXCEPT !.op = op, !.caller = caller, !.status = status]

-----------------------------------------------------------------------------
(* Authentication middleware *)

\* authenticateToken without its look at isActive.
Authenticated_IgnoresActive(u) == u \in DOMAIN users

\* authenticateToken: the token's user must exist and be active, else 401.
Authenticated(u) == u \in DOMAIN users /\ users[u].isActive

\* requireRole(allowedRoles)
HasRole(u, allowed) == users[u].role \in allowed

-----------------------------------------------------------------------------
(* Court model *)

CourtExists(cs, id) == id \in 1..Len(cs)

\* Court.findById(id): a malformed id rejects with a CastError.
FindCourtThrows(id) == id = BadId

\* Schema validation of a Court document on save: name required, at most
\* maxlength characters; type in the enum; circuitCourtId a required
\* ObjectId when type is magisterial.
CourtValidate(c) ==
    /\ c.name >= 1 /\ c.name <= MaxNameLen
    /\ c.type \in CourtTypes
    /\ c.circuitCourtId # BadId
    /\ (c.type = "magisterial" => c.circuitCourtId # NoId)

\* courtSchema.pre('save'): a magisterial court's circuitCourtId must
\* resolve to a court of type circuit.
CourtPreSave(cs, c) ==
    (c.type = "magisterial" /\ c.circuitCourtId # NoId)
        => /\ CourtExists(cs, c.circuitCourtId)
           /\ cs[c.circuitCourtId].type = "circuit"

\* document.save(): validation, then the pre-save hook; TRUE when stored.
CourtSaveOk(cs, c) == CourtValidate(c) /\ CourtPreSave(cs, c)

\* body('name').trim().isLength({ min: 2 }); a missing name counts as empty.
NameValid(name) == name # Absent /\ name >= MinNameLen

\* body('name').optional()...
OptNameValid(name) == name = Absent \/ name >= MinNameLen

-----------------------------------------------------------------------------
(* Court routes *)

\* POST /courts/circuit
CreateCircuitStatus(u, name) ==
    IF ~Authenticated(u) THEN 401
    ELSE IF ~HasRole(u, {"admin"}) THEN 403
    ELSE IF ~NameValid(name) THEN 400
    ELSE IF ~CourtSaveOk(courts,
                [name |-> name, type |-> "circuit", circuitCourtId |-> NoId,
                 isActive |-> TRUE]) THEN 500
    ELSE 201

CreateCircuit(u, name) ==
    LET st == CreateCircuitStatus(u, name) IN
    /\ Len(courts) < MaxCourts
    /\ courts' = IF st = 201
                 THEN Append(courts, [name |-> name, type |-> "circuit",
                                      circuitCourtId |-> NoId, isActive |-> TRUE])
                 ELSE courts
    /\ last' = [Resp("createCircuit", u, st) EXCEPT !.name = name]
    /\ UNCHANGED <<memoryStore, pending, strictQuery, users, staff, staffCreated, now>>

\* The route's own check of the parent: Court.findById(circuitCourtId) must
\* give a court whose type is circuit.
ParentIsCircuit(cs, pid) == CourtExists(cs, pid) /\ cs[pid].type = "circuit"

\* POST /courts/magisterial
CreateMagisterialStatus(u, name, pid) ==
    IF ~Authenticated(u) THEN 401
    ELSE IF ~HasRole(u, {"admin"}) THEN 403
    ELSE IF ~NameValid(name) \/ pid = NoId THEN 400
    ELSE IF FindCourtThrows(pid) THEN 500
    ELSE IF ~ParentIsCircuit(courts, pid) THEN 400
    ELSE IF ~CourtSaveOk(courts,
                [name |-> name, type |-> "magisterial", circuitCourtId |-> pid,
                 isActive |-> TRUE]) THEN 500
    ELSE 201

CreateMagisterial(u, name, pid) ==
    LET st == CreateMagisterialStatus(u, name, pid) IN
    /\ Len(courts) < MaxCourts
    /\ courts' = IF st = 201
                 THEN Append(courts, [name |-> name, type |-> "magisterial",
                                      circuitCourtId |-> pid, isActive |-> TRUE])
                 ELSE courts
    /\ last' = [Resp("createMagisterial", u, st) EXCEPT !.court = pid, !.name = name]
    /\ UNCHANGED <<memoryStore, pending, strictQuery, users, staff, staffCreated, now>>

\* PUT /courts/:id without its check of the caller's role.
UpdateCourtStatus_AnyRole(u, id, name) ==
    IF ~Authenticated(u) THEN 401
    ELSE IF ~OptNameValid(name) THEN 400
    ELSE IF FindCourtThrows(id) THEN 500
    ELSE IF ~CourtExists(courts, id) THEN 404
    ELSE IF ~CourtSaveOk(courts,
                IF name = Absent THEN courts[id]
                ELSE [courts[id] EXCEPT !.name = name]) THEN 500
    ELSE 200

\* PUT /courts/:id  (the court is looked up before the role is checked)
UpdateCourtStatus(u, id, name) ==
    IF ~Authenticated(u) THEN 401
    ELSE IF ~OptNameValid(name) THEN 400
    ELSE IF FindCourtThrows(id) THEN 500
    ELSE IF ~CourtExists(courts, id) THEN 404
    ELSE IF users[u].role # "admin" THEN 403
    ELSE IF ~CourtSaveOk(courts,
                IF name = Absent THEN courts[id]
                ELSE [courts[id] EXCEPT !.name = name]) THEN 500
    ELSE 200

\* PUT /courts/:id that also sets isActive back to true.
UpdateCourt_Reactivates(u, id, name) ==
    LET st == UpdateCourtStatus(u, id, name) IN
    /\ courts' = IF st = 200
                 THEN [courts EXCEPT ![id].isActive = TRUE,
                                     ![id].name = IF name # Absent THEN name ELSE @]
                 ELSE courts
    /\ last' = [Resp("updateCourt", u, st) EXCEPT !.id = id, !.name = name]
    /\ UNCHANGED <<memoryStore, pending, strictQuery, users, staff, staffCreated, now>>

UpdateCourt(u, id, name) ==
    LET st == UpdateCourtStatus(u, id, name) IN
    /\ courts' = IF st = 200 /\ name # Absent
                 THEN [courts EXCEPT ![id].name = name]
                 ELSE courts
    /\ last' = [Resp("updateCourt", u, st) EXCEPT !.id = id, !.name = name]
    /\ UNCHANGED <<memoryStore, pending, strictQuery, users, staff, staffCreated, now>>

\* DELETE /courts/:id  (soft delete)
DeactivateCourtStatus(u, id) ==
    IF ~Authenticated(u) THEN 401
    ELSE IF ~HasRole(u, {"admin"}) THEN 403
    ELSE IF FindCourtThrows(id) THEN 500
    ELSE IF ~CourtExists(courts, id) THEN 404
    ELSE IF ~CourtSaveOk(courts, [courts[id] EXCEPT !.isActive = FALSE]) THEN 500
    ELSE 200

DeactivateCourt(u, id) ==
    LET st == DeactivateCourtStatus(u, id) IN
    /\ courts' = IF st = 200
                 THEN [courts EXCEPT ![id].isActive = FALSE]
                 ELSE courts
    /\ last' = [Resp("deactivateCourt", u, st) EXCEPT !.id = id]
    /\ UNCHANGED <<memoryStore, pending, strictQuery, users, staff, staffCreated, now>>

\* The response is returned to the client; the next request may be served.
Respond ==
    /\ last.op # "none"
    /\ last' = NoResp
    /\ UNCHANGED <<memoryStore, pending, strictQuery, users, courts, staff, staffCreated, now>>

-----------------------------------------------------------------------------
(* Initial states *)

\* The accounts: the sample administrator, and one account of each other
\* role, bound to court cb / mb by its circuitCourtId.
UsersWith(cb, mb) ==
    [u \in UserIds |->
        IF u = 1 THEN [role |-> "admin", circuitCourtId |-> NoId, isActive |-> TRUE]
        ELSE IF u = 2 THEN [role |-> "circuit", circuitCourtId |-> cb, isActive |-> TRUE]
        ELSE [role |-> "magisterial", circuitCourtId |-> mb, isActive |-> TRUE]]

EmptyStaff == [i \in {} |-> NoResp]

\* A fresh database: on first start the sample courts fail validation
\* (magisterial courts inserted without circuitCourtId), so no court and no
\* staff is stored.
InitCourt ==
    /\ strictQuery \in BOOLEAN
    /\ users = UsersWith(NoId, NoId)
    /\ courts = <<>>
    /\ staff = EmptyStaff
    /\ staffCreated = 0
    /\ now = 1
    /\ last = NoResp
    /\ pending = NoPending
    /\ memoryStore = NoMemoryStore

\* One request is served at a time: the next one is taken up once the
\* response of the last is out.
Idle == last.op = "none"

NextCourt ==
    \/ Idle /\ Len(courts) < MaxCourts
          /\ \E u \in Tokens, name \in NameLens \cup {Absent} : CreateCircuit(u, name)
    \/ Idle /\ Len(courts) < MaxCourts
          /\ \E u \in Tokens, name \in NameLens \cup {Absent}, pid \in CourtIdsIn :
                CreateMagisterial(u, name, pid)
    \/ Idle /\ \E u \in Tokens, id \in CourtIdsIn \ {NoId},
                   name \in NameLens \cup {Absent} : UpdateCourt(u, id, name)
    \/ Idle /\ \E u \in Tokens, id \in CourtIdsIn \ {NoId} : DeactivateCourt(u, id)
    \/ Respond

SpecCourt == InitCourt /\ [][NextCourt]_vars

-----------------------------------------------------------------------------
(* Staff model *)

NoStatus == "absent"
StatusesIn == Statuses \cup {"bogus"}
CourtTypesIn == CourtTypes \cup {"bogus"}
DatesIn == Dates \cup {NoDate, BadDate}

StaffExists(stf, id) == id \in DOMAIN stf

\* The Court schema declares no userId path, so court.userId reads undefined
\* on every Court document.
CourtUserId(c) == NoId

\* Court.find({ userId: .., isActive: true }) of the list and statistics
\* routes.  With strictQuery on, the undeclared userId is dropped from the
\* filter and every active court matches; with it off no document matches.
FindOwnCourts(u) ==
    {i \in 1..Len(courts) :
        /\ courts[i].isActive
        /\ (strictQuery \/ CourtUserId(courts[i]) = u)}

\* Court.findOne({ userId: .., type: 'circuit' }): what the query may give.
\* With strictQuery on it is some circuit court (no sort is given); NoId is
\* null.
FindOneCircuit(u) ==
    LET match == {i \in 1..Len(courts) :
                     /\ courts[i].type = "circuit"
                     /\ (strictQuery \/ CourtUserId(courts[i]) = u)}
    IN IF match = {} THEN {NoId} ELSE match

\* The query is only made for a caller of role circuit.
UserCourtChoices(u) ==
    IF Authenticated(u) /\ users[u].role = "circuit" THEN FindOneCircuit(u) ELSE {NoId}

\* The permission block of GET /staff/court/:courtId and POST /staff, on a
\* court that was found: 0 lets the request through.
\* court.userId.toString() throws on the undefined userId.
CourtAccess(u, c, userCourt) ==
    IF users[u].role = "admin" THEN 0
    ELSE IF CourtUserId(c) = NoId THEN 500
    ELSE IF CourtUserId(c) = u THEN 0
    ELSE IF users[u].role = "circuit"
         THEN IF userCourt = NoId \/ c.circuitCourtId # userCourt THEN 403 ELSE 0
    ELSE 403

\* The permission block of GET /staff/:id and PUT /staff/:id, on the
\* populated staff.courtId (court.userId?.toString()); a courtId that
\* populates to null throws.
StaffAccess(u, d, userCourt) ==
    IF users[u].role = "admin" THEN 0
    ELSE IF ~CourtExists(courts, d.courtId) THEN 500
    ELSE IF CourtUserId(courts[d.courtId]) # NoId /\ CourtUserId(courts[d.courtId]) = u THEN 0
    ELSE IF users[u].role = "circuit"
         THEN IF userCourt = NoId \/ courts[d.courtId].circuitCourtId # userCourt
              THEN 403 ELSE 0
    ELSE 403

\* How a permission block ended: it let the request through, answered 403,
\* or threw into the handler's catch.
AccessOutcome(code) ==
    IF code = 0 THEN "granted" ELSE IF code = 403 THEN "denied" ELSE "error"

\* Schema validation of a Staff document on save: the casts, the required
\* paths, the enums, maxlength, and the status-conditioned required dates.
StaffValidate(d) ==
    /\ d.name >= 1 /\ d.name <= MaxNameLen
    /\ d.courtType \in CourtTypes
    /\ d.courtId \notin {NoId, BadId}
    /\ d.employmentStatus \in Statuses
    /\ BadDate \notin {d.retirementDate, d.dismissalDate, d.leaveStartDate, d.leaveEndDate}
    /\ (d.employmentStatus = "retired" => d.retirementDate # NoDate)
    /\ (d.employmentStatus = "dismissed" => d.dismissalDate # NoDate)
    /\ (d.employmentStatus = "on_leave" => d.leaveStartDate # NoDate)

\* The hook without its first branch: retirementDate is left as it is.
StaffPreSave_KeepsRetirementDate(d) ==
    [d EXCEPT
        !.dismissalDate = IF d.employmentStatus # "dismissed" THEN NoDate ELSE @,
        !.leaveStartDate = IF d.employmentStatus # "on_leave" THEN NoDate ELSE @,
        !.leaveEndDate = IF d.employmentStatus # "on_leave" THEN NoDate ELSE @]

\* The hook with its last branch clearing leaveStartDate only.
StaffPreSave_KeepsLeaveEndDate(d) ==
    [d EXCEPT
        !.retirementDate = IF d.employmentStatus # "retired" THEN NoDate ELSE @,
        !.dismissalDate = IF d.employmentStatus # "dismissed" THEN NoDate ELSE @,
        !.leaveStartDate = IF d.employmentStatus # "on_leave" THEN NoDate ELSE @]

\* staffSchema.pre('save')
StaffPreSave(d) ==
    [d EXCEPT
        !.retirementDate = IF d.employmentStatus # "retired" THEN NoDate ELSE @,
        !.dismissalDate = IF d.employmentStatus # "dismissed" THEN NoDate ELSE @,
        !.leaveStartDate = IF d.employmentStatus # "on_leave" THEN NoDate ELSE @,
        !.leaveEndDate = IF d.employmentStatus # "on_leave" THEN NoDate ELSE @]

\* date || new Date()
DateOrNow(date, clock) == IF date \in {Absent, NoDate} THEN clock ELSE date

\* The method clearing three of the four dates: leaveEndDate is left as it is.
UpdateEmploymentStatus_KeepsLeaveEndDate(d, newStatus, date, clock) ==
    LET cleared == [d EXCEPT !.employmentStatus = newStatus,
                             !.retirementDate = NoDate,
                             !.dismissalDate = NoDate,
                             !.leaveStartDate = NoDate]
    IN CASE newStatus = "retired" ->
                [cleared EXCEPT !.retirementDate = DateOrNow(date, clock)]
         [] newStatus = "dismissed" ->
                [cleared EXCEPT !.dismissalDate = DateOrNow(date, clock)]
         [] newStatus = "on_leave" ->
                [cleared EXCEPT !.leaveStartDate = DateOrNow(date, clock)]
         [] OTHER -> cleared

\* updateEmploymentStatus refusing to move a dismissed staff member.
UpdateEmploymentStatus_DismissedIsFinal(d, newStatus, date, clock) ==
    LET cleared == [d EXCEPT !.employmentStatus = newStatus,
                             !.retirementDate = NoDate,
                             !.dismissalDate = NoDate,
                             !.leaveStartDate = NoDate,
                             !.leaveEndDate = NoDate]
    IN CASE d.employmentStatus = "dismissed" -> d
         [] newStatus = "retired" ->
                [cleared EXCEPT !.retirementDate = DateOrNow(date, clock)]
         [] newStatus = "dismissed" ->
                [cleared EXCEPT !.dismissalDate = DateOrNow(date, clock)]
         [] newStatus = "on_leave" ->
                [cleared EXCEPT !.leaveStartDate = DateOrNow(date, clock)]
         [] OTHER -> cleared

\* staffSchema.methods.updateEmploymentStatus, up to its save()
UpdateEmploymentStatus(d, newStatus, date, clock) ==
    LET cleared == [d EXCEPT !.employmentStatus = newStatus,
                             !.retirementDate = NoDate,
                             !.dismissalDate = NoDate,
                             !.leaveStartDate = NoDate,
                             !.leaveEndDate = NoDate]
    IN CASE newStatus = "retired" ->
                [cleared EXCEPT !.retirementDate = DateOrNow(date, clock)]
         [] newStatus = "dismissed" ->
                [cleared EXCEPT !.dismissalDate = DateOrNow(date, clock)]
         [] newStatus = "on_leave" ->
                [cleared EXCEPT !.leaveStartDate = DateOrNow(date, clock)]
         [] OTHER -> cleared

\* A key of a request body that is present replaces the field.
Put(old, new) == IF new = Absent THEN old ELSE new
PutStr(old, new) == IF new = NoStatus THEN old ELSE new

\* new Staff({ ...staffData, courtId, courtType }): employmentStatus defaults
\* to active, a date that is not given is undefined.
NewStaff(b) ==
    [name |-> b.name, courtId |-> b.courtId, courtType |-> b.courtType,
     employmentStatus |-> PutStr("active", b.employmentStatus),
     retirementDate |-> Put(NoDate, b.retirementDate),
     dismissalDate |-> Put(NoDate, b.dismissalDate),
     leaveStartDate |-> Put(NoDate, b.leaveStartDate),
     leaveEndDate |-> Put(NoDate, b.leaveEndDate)]

\* Object.keys(updateData).forEach(key => staff[key] = updateData[key]),
\* employmentStatus and statusDate left out.
AssignFields(d, b) ==
    [name |-> Put(d.name, b.name), courtId |-> Put(d.courtId, b.courtId),
     courtType |-> PutStr(d.courtType, b.courtType),
     employmentStatus |-> d.employmentStatus,
     retirementDate |-> Put(d.retirementDate, b.retirementDate),
     dismissalDate |-> Put(d.dismissalDate, b.dismissalDate),
     leaveStartDate |-> Put(d.leaveStartDate, b.leaveStartDate),
     leaveEndDate |-> Put(d.leaveEndDate, b.leaveEndDate)]

\* The condition without its comparison with the stored status.
StatusChanges_WheneverGiven(d, b) == b.employmentStatus # NoStatus

\* The condition of PUT /staff/:id that sends the update through
\* updateEmploymentStatus.
StatusChanges(d, b) ==
    b.employmentStatus # NoStatus /\ b.employmentStatus # d.employmentStatus

\* The document PUT /staff/:id hands to save().
\* PUT /staff/:id copying the other keys of the body next to a transition.
PutStaffDoc_AssignsNextToTransition(d, b, clock) ==
    IF StatusChanges(d, b)
    THEN UpdateEmploymentStatus(AssignFields(d, b), b.employmentStatus, b.statusDate, clock)
    ELSE AssignFields(d, b)

PutStaffDoc(d, b, clock) ==
    IF StatusChanges(d, b)
    THEN UpdateEmploymentStatus(d, b.employmentStatus, b.statusDate, clock)
    ELSE AssignFields(d, b)

-----------------------------------------------------------------------------
(* Request bodies *)

K(x) == IF x = Absent THEN 0 ELSE 1
KS(x) == IF x = NoStatus THEN 0 ELSE 1

OptDate == DatesIn \cup {Absent}

DateKeyCount(d) ==
    K(d.retirementDate) + K(d.dismissalDate) + K(d.leaveStartDate) + K(d.leaveEndDate)

\* The keys of a body that name a date path of the schema, at most MaxKeys
\* of them present.
DateKeys ==
    {d \in [retirementDate : OptDate, dismissalDate : OptDate,
            leaveStartDate : OptDate, leaveEndDate : OptDate] :
        DateKeyCount(d) <= MaxKeys}

Body(name, courtId, courtType, status, statusDate, d) ==
    [name |-> name, courtId |-> courtId, courtType |-> courtType,
     employmentStatus |-> status, statusDate |-> statusDate,
     retirementDate |-> d.retirementDate, dismissalDate |-> d.dismissalDate,
     leaveStartDate |-> d.leaveStartDate, leaveEndDate |-> d.leaveEndDate]

\* Bodies of PUT /staff/:id: every key optional, at most MaxKeys present
\* besides statusDate; the courtId and courtType keys range over cids and
\* ctypes.  statusDate is read only next to an employmentStatus (it is the
\* argument of updateEmploymentStatus), so it comes with one.
PutBodiesOver(cids, ctypes) ==
    {Body(x[1], x[2], x[3], x[4], x[5], x[6]) :
        x \in {y \in (NameLens \cup {Absent}) \X cids \X ctypes
                    \X (StatusesIn \cup {NoStatus}) \X OptDate \X DateKeys :
                /\ K(y[1]) + K(y[2]) + KS(y[3]) + KS(y[4]) + DateKeyCount(y[6]) <= MaxKeys
                /\ (y[4] = NoStatus => y[5] = Absent)}}

\* The updates of name, status and dates: the staff member stays at its court.
PutBodies == PutBodiesOver({Absent}, {NoStatus})

\* Bodies of POST /staff: name, courtId and courtType, and at most MaxKeys
\* of the optional keys (statusDate is no path of the schema and is dropped).
PostBodies ==
    {Body(x[1], x[2], x[3], x[4], Absent, x[5]) :
        x \in {y \in (NameLens \cup {Absent}) \X CourtIdsIn
                    \X CourtTypesIn \X (StatusesIn \cup {NoStatus}) \X DateKeys :
                KS(y[4]) + DateKeyCount(y[5]) <= MaxKeys}}

\* Ids a staff route is called with: an id that is or was stored resolves to
\* nothing before its insert and after its delete.
StaffIdsIn == (1..MaxStaff) \cup {BadId}

\* Whether the body holds a key other than employmentStatus and statusDate.
HasOtherKeys(b) ==
    \/ b.name # Absent \/ b.courtId # Absent \/ b.courtType # NoStatus
    \/ b.retirementDate # Absent \/ b.dismissalDate # Absent
    \/ b.leaveStartDate # Absent \/ b.leaveEndDate # Absent

\* The requests PUT /staff/:id is called with.  A request without a token is
\* answered before its body is read and comes with the empty body; one with
\* a malformed id is answered before a date key is read and comes without
\* date keys.
PutRequests ==
    {r \in Tokens \X StaffIdsIn \X PutBodies :
        /\ (r[1] = NoId => ~HasOtherKeys(r[3]) /\ r[3].employmentStatus = NoStatus)
        /\ (r[2] = BadId => DateKeyCount(r[3]) = 0)}

\* The requests POST /staff is called with; one without a token comes with
\* the body that holds no key.
PostRequests ==
    {r \in Tokens \X PostBodies :
        r[1] = NoId =>
            /\ r[2].name = Absent /\ r[2].courtId = NoId /\ r[2].courtType = "bogus"
            /\ r[2].employmentStatus = NoStatus /\ DateKeyCount(r[2]) = 0}

-----------------------------------------------------------------------------
(* Staff routes *)

\* Values the courtId of a stored staff document may take.
CourtRefs == 1..(MaxCourts + 1)

StaffOfCourts(cs) == {i \in DOMAIN staff : staff[i].courtId \in cs}
StaffWithStatus(s) == {i \in DOMAIN staff : staff[i].employmentStatus = s}

\* [total, active, retired, dismissed, on_leave] over the staff ids in S
StatsOf(S) ==
    <<Cardinality(S),
      Cardinality(S \cap StaffWithStatus("active")),
      Cardinality(S \cap StaffWithStatus("retired")),
      Cardinality(S \cap StaffWithStatus("dismissed")),
      Cardinality(S \cap StaffWithStatus("on_leave"))>>

\* The court ids the list and statistics routes filter staff by, for a
\* caller that is no admin.
ScopeCourts(u) ==
    LET own == FindOwnCourts(u) IN
    IF users[u].role = "circuit"
    THEN own \cup {j \in 1..Len(courts) :
                      courts[j].circuitCourtId \in own /\ courts[j].isActive}
    ELSE own

\* GET /staff  (admin only)
GetAllStaff(u) ==
    LET st == IF ~Authenticated(u) THEN 401
              ELSE IF ~HasRole(u, {"admin"}) THEN 403
              ELSE 200
    IN
    /\ last' = [Resp("getAllStaff", u, st) EXCEPT
                   !.list = IF st = 200 THEN DOMAIN staff ELSE {},
                   !.scope = IF st = 200 THEN CourtRefs ELSE {}]
    /\ UNCHANGED <<memoryStore, pending, strictQuery, users, courts, staff, staffCreated, now>>

\* GET /staff/status/:status
ListByStatus(u, s) ==
    LET st == IF ~Authenticated(u) THEN 401
              ELSE IF s \notin Statuses THEN 400
              ELSE 200
        scope == IF st # 200 THEN {}
                 ELSE IF users[u].role = "admin" THEN CourtRefs
                 ELSE ScopeCourts(u)
    IN
    /\ last' = [Resp("listByStatus", u, st) EXCEPT
                   !.newStatus = s,
                   !.scope = scope,
                   !.list = StaffOfCourts(scope) \cap StaffWithStatus(s)]
    /\ UNCHANGED <<memoryStore, pending, strictQuery, users, courts, staff, staffCreated, now>>

\* GET /staff/statistics
Statistics(u) ==
    LET st == IF ~Authenticated(u) THEN 401 ELSE 200
        scope == IF st # 200 THEN {}
                 ELSE IF users[u].role = "admin" THEN CourtRefs
                 ELSE ScopeCourts(u)
    IN
    /\ last' = [Resp("statistics", u, st) EXCEPT
                   !.scope = scope,
                   !.stats = StatsOf(StaffOfCourts(scope))]
    /\ UNCHANGED <<memoryStore, pending, strictQuery, users, courts, staff, staffCreated, now>>

\* GET /staff/court/:courtId
ListByCourtStatus(u, cid, userCourt) ==
    IF ~Authenticated(u) THEN 401
    ELSE IF FindCourtThrows(cid) THEN 500
    ELSE IF ~CourtExists(courts, cid) THEN 404
    ELSE IF CourtAccess(u, courts[cid], userCourt) # 0
         THEN CourtAccess(u, courts[cid], userCourt)
    ELSE 200

ListByCourt(u, cid, userCourt) ==
    LET st == ListByCourtStatus(u, cid, userCourt) IN
    /\ last' = [Resp("listByCourt", u, st) EXCEPT
                   !.court = cid,
                   !.access = IF Authenticated(u) /\ CourtExists(courts, cid)
                              THEN AccessOutcome(CourtAccess(u, courts[cid], userCourt))
                              ELSE "none",
                   !.scope = IF st = 200 THEN {cid} ELSE {},
                   !.list = IF st = 200 THEN StaffOfCourts({cid}) ELSE {}]
    /\ UNCHANGED <<memoryStore, pending, strictQuery, users, courts, staff, staffCreated, now>>

\* Staff.findById(id) of the routes on one document, and the permission
\* block after it: 0 lets the request through.
StaffLookup(stf, u, id, userCourt) ==
    IF id = BadId THEN 500
    ELSE IF ~StaffExists(stf, id) THEN 404
    ELSE StaffAccess(u, stf[id], userCourt)

\* GET /staff/:id
GetStaff(u, id, userCourt) ==
    LET st == IF ~Authenticated(u) THEN 401
              ELSE IF StaffLookup(staff, u, id, userCourt) # 0
                   THEN StaffLookup(staff, u, id, userCourt)
              ELSE 200
    IN
    /\ last' = [Resp("getStaff", u, st) EXCEPT
                   !.id = id,
                   !.court = IF StaffExists(staff, id) THEN staff[id].courtId ELSE NoId,
                   !.access = IF Authenticated(u) /\ StaffExists(staff, id)
                              THEN AccessOutcome(StaffAccess(u, staff[id], userCourt))
                              ELSE "none",
                   !.list = IF st = 200 THEN {id} ELSE {}]
    /\ UNCHANGED <<memoryStore, pending, strictQuery, users, courts, staff, staffCreated, now>>

\* POST /staff
CreateStaffStatus(u, b, userCourt) ==
    IF ~Authenticated(u) THEN 401
    ELSE IF \/ ~NameValid(b.name)
            \/ b.courtId = NoId
            \/ b.courtType \notin CourtTypes
            \/ b.employmentStatus \notin Statuses \cup {NoStatus} THEN 400
    ELSE IF FindCourtThrows(b.courtId) THEN 500
    ELSE IF ~CourtExists(courts, b.courtId) \/ courts[b.courtId].type # b.courtType
         THEN 400
    ELSE IF CourtAccess(u, courts[b.courtId], userCourt) # 0
         THEN CourtAccess(u, courts[b.courtId], userCourt)
    ELSE IF ~StaffValidate(NewStaff(b)) THEN 500
    ELSE 201

CreateStaff(u, b, userCourt) ==
    LET st == CreateStaffStatus(u, b, userCourt) IN
    /\ staffCreated < MaxStaff
    /\ staff' = IF st = 201
                THEN [i \in DOMAIN staff \cup {staffCreated + 1} |->
                        IF i = staffCreated + 1 THEN StaffPreSave(NewStaff(b))
                        ELSE staff[i]]
                ELSE staff
    /\ staffCreated' = IF st = 201 THEN staffCreated + 1 ELSE staffCreated
    /\ last' = [Resp("createStaff", u, st) EXCEPT
                   !.id = IF st = 201 THEN staffCreated + 1 ELSE NoId,
                   !.court = b.courtId,
                   !.access = IF st \in {401, 400} \/ FindCourtThrows(b.courtId) THEN "none"
                              ELSE AccessOutcome(CourtAccess(u, courts[b.courtId], userCourt)),
                   !.newStatus = b.employmentStatus]
    /\ UNCHANGED <<memoryStore, pending, strictQuery, users, courts, now>>

\* Staff.findById(id).populate('courtId'): a courtId that resolves to no
\* court populates to null, and the required courtId then fails validation
\* on save unless the request assigns a new one.
Populated(d) ==
    IF CourtExists(courts, d.courtId) THEN d ELSE [d EXCEPT !.courtId = NoId]

\* PUT /staff/:id on the collection stf: the response status and the
\* collection it leaves.
PutStaffStatus(stf, u, id, b, userCourt, clock) ==
    IF ~Authenticated(u) THEN 401
    ELSE IF ~OptNameValid(b.name) \/ b.employmentStatus \notin Statuses \cup {NoStatus}
         THEN 400
    ELSE IF StaffLookup(stf, u, id, userCourt) # 0
         THEN StaffLookup(stf, u, id, userCourt)
    ELSE IF ~StaffValidate(PutStaffDoc(Populated(stf[id]), b, clock)) THEN 500
    ELSE 200

PutStaffResult(stf, u, id, b, userCourt, clock) ==
    IF PutStaffStatus(stf, u, id, b, userCourt, clock) = 200
    THEN [stf EXCEPT ![id] = StaffPreSave(PutStaffDoc(Populated(stf[id]), b, clock))]
    ELSE stf

PutStaff(u, id, b, userCourt) ==
    LET st == PutStaffStatus(staff, u, id, b, userCourt, now)
        after == PutStaffResult(staff, u, id, b, userCourt, now)
    IN
    /\ staff' = after
    /\ last' = [Resp("putStaff", u, st) EXCEPT
                   !.id = id,
                   !.court = IF StaffExists(staff, id) THEN staff[id].courtId ELSE NoId,
                   !.access = IF st \in {401, 400} \/ ~StaffExists(staff, id) THEN "none"
                              ELSE AccessOutcome(StaffAccess(u, staff[id], userCourt)),
                   !.ctype = IF st # 200 THEN "none"
                             ELSE IF StatusChanges(staff[id], b) THEN "transition"
                             ELSE "fields",
                   !.newStatus = b.employmentStatus,
                   !.date = b.statusDate,
                   !.at = now,
                   !.name = IF HasOtherKeys(b) THEN 1 ELSE Absent,
                   \* the same request served once more, next or at a later time
                   !.again = (st = 200 =>
                                \A c \in now..MaxDate :
                                    /\ PutStaffStatus(after, u, id, b, userCourt, c) = 200
                                    /\ PutStaffResult(after, u, id, b, userCourt, c) = after)]
    /\ UNCHANGED <<memoryStore, pending, strictQuery, users, courts, staffCreated, now>>

\* DELETE /staff/:id without requireRole.
DeleteStaffStatus_AnyRole(u, id) ==
    IF ~Authenticated(u) THEN 401
    ELSE IF id = BadId THEN 500
    ELSE IF ~StaffExists(staff, id) THEN 404
    ELSE 200

\* DELETE /staff/:id  (admin only, hard delete)
DeleteStaffStatus(u, id) ==
    IF ~Authenticated(u) THEN 401
    ELSE IF ~HasRole(u, {"admin"}) THEN 403
    ELSE IF id = BadId THEN 500
    ELSE IF ~StaffExists(staff, id) THEN 404
    ELSE 200

DeleteStaff(u, id) ==
    LET st == DeleteStaffStatus(u, id) IN
    /\ staff' = IF st = 200 THEN [i \in DOMAIN staff \ {id} |-> staff[i]] ELSE staff
    /\ last' = [Resp("deleteStaff", u, st) EXCEPT !.id = id]
    /\ UNCHANGED <<memoryStore, pending, strictQuery, users, courts, staffCreated, now>>

\* Time passes on the server clock.
Tick ==
    /\ Idle
    /\ now < MaxDate
    /\ now' = now + 1
    /\ UNCHANGED <<memoryStore, pending, strictQuery, users, courts, staff, staffCreated, last>>

\* Courts as three court-creation requests leave them: circuit court 1, a
\* magisterial court 2 under it, and circuit court 3.
ThreeCourts ==
    <<[name |-> MinNameLen, type |-> "circuit", circuitCourtId |-> NoId, isActive |-> TRUE],
      [name |-> MinNameLen, type |-> "magisterial", circuitCourtId |-> 1, isActive |-> TRUE],
      [name |-> MinNameLen, type |-> "circuit", circuitCourtId |-> NoId, isActive |-> TRUE]>>

\* The circuit account is bound to one of the circuit courts, the
\* magisterial account to the magisterial court.
InitStaff ==
    /\ strictQuery \in BOOLEAN
    /\ \E cb \in {1, 3} : users = UsersWith(cb, 2)
    /\ courts = ThreeCourts
    /\ staff = EmptyStaff
    /\ staffCreated = 0
    /\ now = 1
    /\ last = NoResp
    /\ pending = NoPending
    /\ memoryStore = NoMemoryStore

NextStaff ==
    \/ Idle /\ \E u \in Tokens : GetAllStaff(u)
    \/ Idle /\ \E u \in Tokens, s \in StatusesIn : ListByStatus(u, s)
    \/ Idle /\ \E u \in Tokens : Statistics(u)
    \/ Idle /\ \E u \in Tokens, cid \in CourtIdsIn \ {NoId} :
                  \E uc \in UserCourtChoices(u) : ListByCourt(u, cid, uc)
    \/ Idle /\ \E u \in Tokens, id \in StaffIdsIn :
                  \E uc \in UserCourtChoices(u) : GetStaff(u, id, uc)
    \/ Idle /\ staffCreated < MaxStaff
          /\ \E r \in PostRequests :
                \E uc \in UserCourtChoices(r[1]) : CreateStaff(r[1], r[2], uc)
    \/ Idle /\ \E r \in PutRequests :
                  \E uc \in UserCourtChoices(r[1]) : PutStaff(r[1], r[2], r[3], uc)
    \/ Idle /\ \E u \in Tokens, id \in StaffIdsIn : DeleteStaff(u, id)
    \/ Tick
    \/ Respond

SpecStaff == InitStaff /\ [][NextStaff]_vars

-----------------------------------------------------------------------------
(* One stored staff record and its status transitions *)

\* staff.updateEmploymentStatus(newStatus, date) on the stored document id.
\* The promise resolves when save() has stored the document (status 200)
\* and rejects on a validation error, leaving the stored document (500).
CallUpdateEmploymentStatus(id, newStatus, date) ==
    LET doc == UpdateEmploymentStatus(staff[id], newStatus, date, now)
        ok == StaffValidate(doc)
        after == IF ok THEN [staff EXCEPT ![id] = StaffPreSave(doc)] ELSE staff
    IN
    /\ StaffExists(staff, id)
    /\ staff' = after
    /\ last' = [Resp("updateEmploymentStatus", NoId, IF ok THEN 200 ELSE 500) EXCEPT
                   !.id = id,
                   !.ctype = IF ok THEN "transition" ELSE "none",
                   !.newStatus = newStatus,
                   !.date = date,
                   !.at = now,
                   \* the same call made once more, next or at a later time
                   !.again = (ok =>
                                \A c \in now..MaxDate :
                                    LET doc2 == UpdateEmploymentStatus(after[id], newStatus,
                                                                       date, c)
                                    IN StaffValidate(doc2) /\ StaffPreSave(doc2) = after[id])]
    /\ UNCHANGED <<memoryStore, pending, strictQuery, users, courts, staffCreated, now>>

\* The documents save() stores for a staff member of the magisterial court:
\* those that pass validation and that the pre-save hook leaves as they are.
StoredDocs ==
    {d \in [name : {MinNameLen}, courtId : {2}, courtType : {"magisterial"},
            employmentStatus : Statuses,
            retirementDate : Dates \cup {NoDate}, dismissalDate : Dates \cup {NoDate},
            leaveStartDate : Dates \cup {NoDate}, leaveEndDate : Dates \cup {NoDate}] :
        StaffValidate(d) /\ StaffPreSave(d) = d}

\* One staff member is stored, in any state a save can have left it in.
InitMethod ==
    /\ strictQuery \in BOOLEAN
    /\ users = UsersWith(1, 2)
    /\ courts = ThreeCourts
    /\ \E d \in StoredDocs : staff = [i \in {1} |-> d]
    /\ staffCreated = 1
    /\ now = 1
    /\ last = NoResp
    /\ pending = NoPending
    /\ memoryStore = NoMemoryStore

NextMethod ==
    \/ Idle /\ \E id \in DOMAIN staff, s \in StatusesIn, date \in OptDate :
                  CallUpdateEmploymentStatus(id, s, date)
    \/ Idle /\ \E r \in PutRequests :
                  \E uc \in UserCourtChoices(r[1]) : PutStaff(r[1], r[2], r[3], uc)
    \/ Tick
    \/ Respond

SpecMethod == InitMethod /\ [][NextMethod]_vars

-----------------------------------------------------------------------------
(* Staff records and the courts they refer to *)

\* The updates of name, court and status: bodies without a date key of the
\* schema.
RefBodies ==
    {b \in PutBodiesOver(CourtIdsIn \cup {Absent}, CourtTypesIn \cup {NoStatus}) :
        DateKeyCount(b) = 0}

RefRequests ==
    {r \in Tokens \X StaffIdsIn \X RefBodies :
        /\ (r[1] = NoId => ~HasOtherKeys(r[3]) /\ r[3].employmentStatus = NoStatus)
        /\ (r[2] = BadId => ~HasOtherKeys(r[3]))}

\* The circuit account is bound to court 1; no staff is stored.
InitRef ==
    /\ strictQuery \in BOOLEAN
    /\ users = UsersWith(1, 2)
    /\ courts = ThreeCourts
    /\ staff = EmptyStaff
    /\ staffCreated = 0
    /\ now = 1
    /\ last = NoResp
    /\ pending = NoPending
    /\ memoryStore = NoMemoryStore

NextRef ==
    \/ Idle /\ staffCreated < MaxStaff
          /\ \E r \in PostRequests :
                \E uc \in UserCourtChoices(r[1]) : CreateStaff(r[1], r[2], uc)
    \/ Idle /\ \E r \in RefRequests :
                  \E uc \in UserCourtChoices(r[1]) : PutStaff(r[1], r[2], r[3], uc)
    \/ Idle /\ \E u \in Tokens, id \in StaffIdsIn :
                  \E uc \in UserCourtChoices(u) : GetStaff(u, id, uc)
    \/ Respond

SpecRef == InitRef /\ [][NextRef]_vars

-----------------------------------------------------------------------------
(* User routes.  An account here also carries its username, a sequence of
   characters, and the length of its name.  A field a request body leaves
   out is "none" (role, isActive), <<>> (username) or Absent. *)

MaxUsers == 4

MinUsernameLen == 3
MinPasswordLen == 6

AlphaNum == {"a", "A", "b", "B"}

\* String.prototype.toLowerCase, a character at a time.
LowerChar(c) == IF c = "A" THEN "a" ELSE IF c = "B" THEN "b" ELSE c

ToLowerCase(s) == [i \in DOMAIN s |-> LowerChar(s[i])]

\* body('username').trim().isLength({ min: 3 }).isAlphanumeric()
UsernameValid(s) == Len(s) >= MinUsernameLen /\ \A i \in DOMAIN s : s[i] \in AlphaNum

\* body('role').isIn(['admin'])
RoleValid(role) == role = "admin"

\* User.findByUsername(username): the account of that username, letter case
\* ignored.
FindByUsername(us, username) ==
    {i \in DOMAIN us : ToLowerCase(us[i].username) = ToLowerCase(username)}

\* User.findById(id): a malformed id rejects with a CastError.
FindUserThrows(id) == id = BadId

UserExists(us, id) == id \in DOMAIN us

\* POST /users
CreateUserStatus(u, b) ==
    IF ~Authenticated(u) THEN 401
    ELSE IF ~HasRole(u, {"admin"}) THEN 403
    ELSE IF ~(/\ UsernameValid(b.username)
              /\ b.password >= MinPasswordLen
              /\ NameValid(b.name)
              /\ RoleValid(b.role)) THEN 400
    ELSE IF FindByUsername(users, b.username) # {} THEN 400
    ELSE 201

\* The account POST /users stores: role 'magisterial' alone carries the
\* circuitCourtId of the body.
NewUser(b) ==
    [username |-> b.username, name |-> b.name, role |-> b.role,
     circuitCourtId |-> IF b.role = "magisterial" /\ b.circuitCourtId # Absent
                        THEN b.circuitCourtId ELSE NoId,
     isActive |-> TRUE]

CreateUser(u, b) ==
    LET st == CreateUserStatus(u, b) IN
    /\ last' = [Resp("createUser", u, st) EXCEPT
                   !.role = b.role, !.username = b.username,
                   !.id = IF st = 201 THEN Len(users) + 1 ELSE NoId]
    /\ users' = IF st = 201 THEN Append(users, NewUser(b)) ELSE users
    /\ UNCHANGED <<memoryStore, pending, strictQuery, courts, staff, staffCreated, now>>

\* PUT /users/:id without the check that a caller who is no admin updates
\* its own account.
PutUserStatus_AnyTarget(u, id, b) ==
    IF ~Authenticated(u) THEN 401
    ELSE IF ~(OptNameValid(b.name) /\ (b.role = "none" \/ RoleValid(b.role))) THEN 400
    ELSE IF /\ users[u].role # "admin"
            /\ (b.role # "none" \/ b.circuitCourtId # Absent \/ b.isActive # "none")
         THEN 403
    ELSE IF FindUserThrows(id) THEN 500
    ELSE IF ~UserExists(users, id) THEN 404
    ELSE 200

\* PUT /users/:id
PutUserStatus(u, id, b) ==
    IF ~Authenticated(u) THEN 401
    ELSE IF ~(OptNameValid(b.name) /\ (b.role = "none" \/ RoleValid(b.role))) THEN 400
    ELSE IF users[u].role # "admin" /\ u # id THEN 403
    ELSE IF /\ users[u].role # "admin"
            /\ (b.role # "none" \/ b.circuitCourtId # Absent \/ b.isActive # "none")
         THEN 403
    ELSE IF FindUserThrows(id) THEN 500
    ELSE IF ~UserExists(users, id) THEN 404
    ELSE 200

\* The fields PUT /users/:id assigns before user.save().
PutUserDoc(d, b, admin) ==
    [d EXCEPT
        !.name = IF b.name # Absent THEN b.name ELSE @,
        !.role = IF b.role # "none" /\ admin THEN b.role ELSE @,
        !.circuitCourtId = IF b.circuitCourtId # Absent /\ admin
                           THEN b.circuitCourtId ELSE @,
        !.isActive = IF b.isActive # "none" /\ admin THEN b.isActive = "true" ELSE @]

PutUser(u, id, b) ==
    LET st == PutUserStatus(u, id, b) IN
    /\ last' = [Resp("putUser", u, st) EXCEPT !.id = id, !.name = b.name]
    /\ users' = IF st = 200
                THEN [users EXCEPT ![id] = PutUserDoc(@, b, users[u].role = "admin")]
                ELSE users
    /\ UNCHANGED <<memoryStore, pending, strictQuery, courts, staff, staffCreated, now>>

\* DELETE /users/:id
DeleteUserStatus(u, id) ==
    IF ~Authenticated(u) THEN 401
    ELSE IF ~HasRole(u, {"admin"}) THEN 403
    ELSE IF u = id THEN 400
    ELSE IF FindUserThrows(id) THEN 500
    ELSE IF ~UserExists(users, id) THEN 404
    ELSE 200

\* DELETE /users/:id removing the document instead of deactivating it.
DeleteUser_HardDelete(u, id) ==
    LET st == DeleteUserStatus(u, id) IN
    /\ last' = [Resp("deleteUser", u, st) EXCEPT !.id = id]
    /\ users' = IF st = 200 THEN [i \in DOMAIN users \ {id} |-> users[i]] ELSE users
    /\ UNCHANGED <<memoryStore, pending, strictQuery, courts, staff, staffCreated, now>>

\* DELETE /users/:id deactivating the account before it refuses the
\* caller's own id.
DeleteUser_WritesBeforeSelfCheck(u, id) ==
    LET st == DeleteUserStatus(u, id) IN
    /\ last' = [Resp("deleteUser", u, st) EXCEPT !.id = id]
    /\ users' = IF st = 200 \/ (st = 400 /\ UserExists(users, id))
                THEN [users EXCEPT ![id].isActive = FALSE] ELSE users
    /\ UNCHANGED <<memoryStore, pending, strictQuery, courts, staff, staffCreated, now>>

DeleteUser(u, id) ==
    LET st == DeleteUserStatus(u, id) IN
    /\ last' = [Resp("deleteUser", u, st) EXCEPT !.id = id]
    /\ users' = IF st = 200 THEN [users EXCEPT ![id].isActive = FALSE] ELSE users
    /\ UNCHANGED <<memoryStore, pending, strictQuery, courts, staff, staffCreated, now>>

\* Request inputs.
UsernamesIn ==
    {<<>>, <<"a", "b">>, <<"a", "_", "b">>, <<"a", "a", "a">>, <<"A", "a", "a">>,
     <<"a", "b", "a">>, <<"A", "b", "a">>}

RolesIn == Roles \cup {"none", "clerk"}

UserIdsIn == (1..MaxUsers) \cup {BadId}

UserTokens == (1..MaxUsers) \cup {NoId}

\* Bodies of POST /users: at most one of username, password and name is
\* invalid, and circuitCourtId comes with the one role that would keep it.
PostUserBodies ==
    {b \in [username : UsernamesIn, password : {MinPasswordLen - 1, MinPasswordLen},
            name : {MinNameLen - 1, MinNameLen}, role : RolesIn,
            circuitCourtId : {Absent, 1}] :
        /\ ~UsernameValid(b.username) => b.password = MinPasswordLen /\ b.name = MinNameLen
        /\ b.password # MinPasswordLen => b.name = MinNameLen
        /\ b.circuitCourtId # Absent => b.role = "magisterial"}

PutUserBodies ==
    [name : {Absent, MinNameLen - 1, MinNameLen}, role : {"none", "admin", "circuit"},
     circuitCourtId : {Absent, 1}, isActive : {"none", "true", "false"}]

\* The accounts at the start: the sample administrator and one account of
\* each other role.
InitUser ==
    /\ strictQuery = TRUE
    /\ users = [u \in UserIds |->
                  [username |-> IF u = 1 THEN <<"a", "a", "a">>
                                ELSE IF u = 2 THEN <<"b", "b", "b">> ELSE <<"b", "a", "b">>,
                   name |-> IF u = 2 THEN MinNameLen + 1 ELSE MinNameLen]
                  @@ UsersWith(1, 2)[u]]
    /\ courts = ThreeCourts
    /\ staff = EmptyStaff
    /\ staffCreated = 0
    /\ now = 1
    /\ last = NoResp
    /\ pending = NoPending
    /\ memoryStore = NoMemoryStore

NextUser ==
    \/ Idle /\ Len(users) < MaxUsers
          /\ \E u \in UserTokens, b \in PostUserBodies : CreateUser(u, b)
    \/ Idle /\ \E u \in UserTokens, id \in UserIdsIn, b \in PutUserBodies : PutUser(u, id, b)
    \/ Idle /\ \E u \in UserTokens, id \in UserIdsIn : DeleteUser(u, id)
    \/ Respond

SpecUser == InitUser /\ [][NextUser]_vars

-----------------------------------------------------------------------------
(* User creation on the in-memory store.  Each await of a request is a step
   of its own, so the steps of two requests interleave.  The store's ids
   are left out: no step reads them. *)

\* MemoryStore.findUserByUsername(username)
FindUserByUsername(us, username) ==
    {i \in DOMAIN us : ToLowerCase(us[i].username) = ToLowerCase(username)}

\* A creation request arrives in a free slot.
ReceiveCreate(r, username) ==
    /\ pending[r].pc = "idle"
    /\ Len(users) + Cardinality({q \in DOMAIN pending : pending[q].pc # "idle"}) < MaxUsers
    /\ pending' = [pending EXCEPT ![r] = [pc |-> "check", username |-> username, status |-> 0]]
    /\ UNCHANGED <<memoryStore, strictQuery, users, courts, staff, staffCreated, now, last>>

\* The existence check: a taken username ends the request with 400.
CheckUsername(r) ==
    /\ pending[r].pc = "check"
    /\ pending' = [pending EXCEPT ![r] =
                      IF FindUserByUsername(users, pending[r].username) # {}
                      THEN [@ EXCEPT !.pc = "done", !.status = 400]
                      ELSE [@ EXCEPT !.pc = "hash"]]
    /\ UNCHANGED <<memoryStore, strictQuery, users, courts, staff, staffCreated, now, last>>

\* MemoryStore.createUser(userData) up to its await of bcrypt.hash.
HashPassword(r) ==
    /\ pending[r].pc = "hash"
    /\ pending' = [pending EXCEPT ![r].pc = "push"]
    /\ UNCHANGED <<memoryStore, strictQuery, users, courts, staff, staffCreated, now, last>>

\* MemoryStore.createUser after the await: this.users.push(user).
PushUser(r) ==
    /\ pending[r].pc = "push"
    /\ users' = Append(users, [username |-> pending[r].username, role |-> "admin",
                               isActive |-> TRUE])
    /\ pending' = [pending EXCEPT ![r] = [@ EXCEPT !.pc = "done", !.status = 201]]
    /\ UNCHANGED <<memoryStore, strictQuery, courts, staff, staffCreated, now, last>>

\* The response leaves; the slot is free again.
ReplyCreate(r) ==
    /\ pending[r].pc = "done"
    /\ pending' = [pending EXCEPT ![r] = FreeSlot]
    /\ UNCHANGED <<memoryStore, strictQuery, users, courts, staff, staffCreated, now, last>>

SignupNames == {u \in UsernamesIn : UsernameValid(u)}

\* The store after initializeSampleData: the administrator alone.
InitSignup ==
    /\ strictQuery = TRUE
    /\ users = <<[username |-> <<"a", "a", "a">>, role |-> "admin", isActive |-> TRUE]>>
    /\ courts = <<>>
    /\ staff = EmptyStaff
    /\ staffCreated = 0
    /\ now = 1
    /\ last = NoResp
    /\ pending = NoPending
    /\ memoryStore = NoMemoryStore

NextSignup ==
    \/ \E r \in DOMAIN pending, username \in SignupNames : ReceiveCreate(r, username)
    \/ \E r \in DOMAIN pending : CheckUsername(r)
    \/ \E r \in DOMAIN pending : HashPassword(r)
    \/ \E r \in DOMAIN pending : PushUser(r)
    \/ \E r \in DOMAIN pending : ReplyCreate(r)

SpecSignup == InitSignup /\ [][NextSignup]_vars

-----------------------------------------------------------------------------
(* The three routers together, each route called with a few requests that
   take its exits: users, courts and staff in one store. *)

ApiNames == {MinNameLen - 1, MinNameLen, MaxNameLen + 1}

ApiCourtIds == {1, MaxCourts + 1, BadId}

ApiPostStaff ==
    {r \in PostRequests :
        /\ r[2].name \in {MinNameLen - 1, MinNameLen}
        /\ r[2].courtId \in {1, MaxCourts + 1}
        /\ r[2].courtType \in CourtTypes
        /\ r[2].employmentStatus \in {NoStatus, "retired"}
        /\ r[2].retirementDate \in {Absent, 1}
        /\ r[2].dismissalDate = Absent
        /\ r[2].leaveStartDate = Absent
        /\ r[2].leaveEndDate = Absent}

ApiPutStaff ==
    {r \in PutRequests :
        /\ r[3].name \in {Absent, MinNameLen - 1}
        /\ r[3].employmentStatus \in {NoStatus, "retired", "bogus"}
        /\ r[3].statusDate = Absent
        /\ DateKeyCount(r[3]) = 0}

ApiPostUser ==
    {b \in PostUserBodies :
        b.username \in {<<"a", "b">>, <<"A", "a", "a">>, <<"a", "b", "a">>}}

\* Bodies of PUT /users/:id with at most one key.
ApiPutUser ==
    {b \in PutUserBodies :
        /\ b.circuitCourtId = Absent
        /\ b.name # MinNameLen
        /\ b.role # "admin"
        /\ K(b.name) + (IF b.role = "none" THEN 0 ELSE 1)
              + (IF b.isActive = "none" THEN 0 ELSE 1) <= 1}

ApiUserIds == {1, 2, MaxUsers + 1, BadId}

\* The accounts of InitUser, courts 1 (circuit) and 2 (magisterial under 1),
\* no staff.
InitApi ==
    /\ strictQuery \in BOOLEAN
    /\ users = [u \in UserIds |->
                  [username |-> IF u = 1 THEN <<"a", "a", "a">>
                                ELSE IF u = 2 THEN <<"b", "b", "b">> ELSE <<"b", "a", "b">>,
                   name |-> MinNameLen] @@ UsersWith(1, 2)[u]]
    /\ courts = SubSeq(ThreeCourts, 1, 2)
    /\ staff = EmptyStaff
    /\ staffCreated = 0
    /\ now = 1
    /\ last = NoResp
    /\ pending = NoPending
    /\ memoryStore = NoMemoryStore

NextApi ==
    \/ Idle /\ Len(users) < MaxUsers
          /\ \E u \in UserTokens, b \in ApiPostUser : CreateUser(u, b)
    \/ Idle /\ \E u \in UserTokens, id \in ApiUserIds, b \in ApiPutUser : PutUser(u, id, b)
    \/ Idle /\ \E u \in UserTokens, id \in ApiUserIds : DeleteUser(u, id)
    \/ Idle /\ \E u \in Tokens, name \in ApiNames : CreateCircuit(u, name)
    \/ Idle /\ \E u \in Tokens, name \in ApiNames, pid \in {1, 2, BadId} :
                  CreateMagisterial(u, name, pid)
    \/ Idle /\ \E u \in Tokens, id \in ApiCourtIds, name \in {Absent, MinNameLen - 1, MinNameLen} :
                  UpdateCourt(u, id, name)
    \/ Idle /\ \E u \in Tokens, id \in ApiCourtIds : DeactivateCourt(u, id)
    \/ Idle /\ staffCreated < MaxStaff
          /\ \E r \in ApiPostStaff :
                \E uc \in UserCourtChoices(r[1]) : CreateStaff(r[1], r[2], uc)
    \/ Idle /\ \E r \in ApiPutStaff :
                  \E uc \in UserCourtChoices(r[1]) : PutStaff(r[1], r[2], r[3], uc)
    \/ Idle /\ \E u \in Tokens, id \in StaffIdsIn : DeleteStaff(u, id)
    \/ Respond

SpecApi == InitApi /\ [][NextApi]_vars

-----------------------------------------------------------------------------
(* DELETE /users/:id with its awaits as steps of their own: the read of
   authenticateToken, the read of the target, and the save. *)

\* A DELETE /users/:id of token u for account id arrives in a free slot.
ReceiveDelete(r, u, id) ==
    /\ pending[r].pc = "idle"
    /\ pending' = [pending EXCEPT ![r] =
                      [pc |-> "auth", username |-> <<>>, status |-> 0,
                       caller |-> u, target |-> id]]
    /\ UNCHANGED <<memoryStore, strictQuery, users, courts, staff, staffCreated, now, last>>

\* The read of authenticateToken returns; requireRole and the handler's
\* self-check run, and the read of the target is started.
AuthenticateDelete(r) ==
    LET u == pending[r].caller
        st == IF ~Authenticated(u) THEN 401
              ELSE IF ~HasRole(u, {"admin"}) THEN 403
              ELSE IF u = pending[r].target THEN 400
              ELSE 0
    IN
    /\ pending[r].pc = "auth"
    /\ pending' = [pending EXCEPT ![r] =
                      IF st = 0 THEN [@ EXCEPT !.pc = "find"]
                      ELSE [@ EXCEPT !.pc = "done", !.status = st]]
    /\ UNCHANGED <<memoryStore, strictQuery, users, courts, staff, staffCreated, now, last>>

\* User.findById(userId) returns; user.isActive = false and save() starts.
FindTarget(r) ==
    LET id == pending[r].target
        st == IF FindUserThrows(id) THEN 500
              ELSE IF ~UserExists(users, id) THEN 404
              ELSE 0
    IN
    /\ pending[r].pc = "find"
    /\ pending' = [pending EXCEPT ![r] =
                      IF st = 0 THEN [@ EXCEPT !.pc = "save"]
                      ELSE [@ EXCEPT !.pc = "done", !.status = st]]
    /\ UNCHANGED <<memoryStore, strictQuery, users, courts, staff, staffCreated, now, last>>

\* save() stores the one modified path, isActive.
SaveTarget(r) ==
    /\ pending[r].pc = "save"
    /\ users' = [users EXCEPT ![pending[r].target].isActive = FALSE]
    /\ pending' = [pending EXCEPT ![r] = [@ EXCEPT !.pc = "done", !.status = 200]]
    /\ UNCHANGED <<memoryStore, strictQuery, courts, staff, staffCreated, now, last>>

\* The response leaves; the slot is free again.
ReplyDelete(r) ==
    /\ pending[r].pc = "done"
    /\ pending' = [pending EXCEPT ![r] = FreeSlot]
    /\ UNCHANGED <<memoryStore, strictQuery, users, courts, staff, staffCreated, now, last>>

\* Two administrators and a circuit account, all active.
InitDeactivate ==
    /\ strictQuery = TRUE
    /\ users = [u \in UserIds |->
                  [role |-> IF u = 3 THEN "circuit" ELSE "admin",
                   circuitCourtId |-> IF u = 3 THEN 1 ELSE NoId,
                   isActive |-> TRUE]]
    /\ courts = ThreeCourts
    /\ staff = EmptyStaff
    /\ staffCreated = 0
    /\ now = 1
    /\ last = NoResp
    /\ pending = NoPending
    /\ memoryStore = NoMemoryStore

NextDeactivate ==
    \/ \E r \in DOMAIN pending, u \in Tokens, id \in UserIds \cup {MaxUsers, BadId} :
          ReceiveDelete(r, u, id)
    \/ \E r \in DOMAIN pending : AuthenticateDelete(r)
    \/ \E r \in DOMAIN pending : FindTarget(r)
    \/ \E r \in DOMAIN pending : SaveTarget(r)
    \/ \E r \in DOMAIN pending : ReplyDelete(r)

SpecDeactivate == InitDeactivate /\ [][NextDeactivate]_vars

-----------------------------------------------------------------------------
(* Court claims *)

\* Every magisterial court refers to a stored court of type circuit.
MagisterialParentsAreCircuit ==
    \A i \in 1..Len(courts) :
        courts[i].type = "magisterial" => ParentIsCircuit(courts, courts[i].circuitCourtId)

\* An administrator's request to create a magisterial court under `pid`,
\* where pid is missing, resolves to nothing or resolves to a magisterial court.
BadParentRequest ==
    /\ last'.op = "createMagisterial"
    /\ Authenticated(last'.caller)
    /\ HasRole(last'.caller, {"admin"})
    /\ ~ParentIsCircuit(courts, last'.court)

\* C1: in every reachable state each magisterial court's circuitCourtId
\* refers to an existing circuit court, and a request to create a magisterial
\* court whose circuitCourtId is missing, does not resolve or resolves to a
\* magisterial court is answered 400 (validation failure) and adds no court.
C1_ParentAlwaysCircuitAndBadParentRejected ==
    [][ /\ MagisterialParentsAreCircuit'
        /\ BadParentRequest => (last'.status = 400 /\ courts' = courts) ]_vars

-----------------------------------------------------------------------------
(* Staff lifecycle claims *)

\* The date of each of the three status dates is set exactly when the
\* record has the status the date belongs to.
DatesMatchStatus(d) ==
    /\ (d.retirementDate # NoDate) <=> (d.employmentStatus = "retired")
    /\ (d.dismissalDate # NoDate) <=> (d.employmentStatus = "dismissed")
    /\ (d.leaveStartDate # NoDate) <=> (d.employmentStatus = "on_leave")

\* C2: after any sequence of staff create, update and transition requests,
\* every stored staff record has, among retirementDate, dismissalDate and
\* leaveStartDate, exactly the date of its employmentStatus set and the
\* other two unset; an active record has none of the three.
C2_ExactlyTheMatchingDate ==
    \A i \in DOMAIN staff :
        /\ staff[i].employmentStatus \in Statuses
        /\ DatesMatchStatus(staff[i])

\* A record that was created, was later put on another status by a PUT, and
\* holds the date of that status.
C2_Witness ==
    /\ last.op = "putStaff" /\ last.status = 200 /\ last.ctype = "transition"
    /\ last.newStatus = "dismissed"
    /\ staff[last.id].dismissalDate \in Dates

\* C8: updateEmploymentStatus(newStatus, date), from any stored record,
\* leaves a record whose employmentStatus is newStatus and whose four status
\* dates are unset except the one of newStatus, which is the supplied date
\* if one is given and the current time otherwise (none for active);
\* leaveEndDate is unset after every transition.
C8_TransitionResult ==
    (last.op = "updateEmploymentStatus" /\ last.status = 200) =>
        LET d == staff[last.id]
            when == IF last.date \in Dates THEN last.date ELSE last.at
        IN /\ d.employmentStatus = last.newStatus
           /\ d.retirementDate = (IF last.newStatus = "retired" THEN when ELSE NoDate)
           /\ d.dismissalDate = (IF last.newStatus = "dismissed" THEN when ELSE NoDate)
           /\ d.leaveStartDate = (IF last.newStatus = "on_leave" THEN when ELSE NoDate)
           /\ d.leaveEndDate = NoDate

\* A transition to on_leave without a date, made after the clock moved on:
\* leaveStartDate is the current time.
C8_Witness ==
    /\ last.op = "updateEmploymentStatus" /\ last.status = 200
    /\ last.newStatus = "on_leave" /\ last.date = Absent /\ last.at = MaxDate
    /\ staff[last.id].leaveStartDate = MaxDate

\* C9 as it is stated: the same transition with the same date, applied twice
\* through the method or through two identical PUT /staff/:id requests,
\* leaves the record after the second application as it was after the first.
C9_SameTransitionTwice ==
    (/\ last.op \in {"updateEmploymentStatus", "putStaff"}
     /\ last.status = 200 /\ last.ctype = "transition"
     /\ last.date \in Dates) => last.again

\* C9, amended: the same holds for the method called with a date, and for
\* two identical PUT requests whose body holds no key besides
\* employmentStatus and statusDate (with or without a statusDate: the second
\* request finds the status unchanged and makes no transition).
C9_PureTransitionTwice ==
    /\ (/\ last.op = "updateEmploymentStatus" /\ last.status = 200
        /\ last.date \in Dates) => last.again
    /\ (/\ last.op = "putStaff" /\ last.status = 200 /\ last.ctype = "transition"
        /\ last.name = Absent) => last.again

\* A PUT that retired the staff member on a supplied date and held nothing
\* else.
C9_Witness ==
    /\ last.op = "putStaff" /\ last.status = 200 /\ last.ctype = "transition"
    /\ last.newStatus = "retired" /\ last.date \in Dates /\ last.name = Absent
    /\ staff[last.id].retirementDate = last.date

\* How many of the four status dates of d are set
PopulatedDates(d) ==
    K(IF d.retirementDate = NoDate THEN Absent ELSE d.retirementDate)
    + K(IF d.dismissalDate = NoDate THEN Absent ELSE d.dismissalDate)
    + K(IF d.leaveStartDate = NoDate THEN Absent ELSE d.leaveStartDate)
    + K(IF d.leaveEndDate = NoDate THEN Absent ELSE d.leaveEndDate)

\* C10 as it is stated: at most one of retirementDate, dismissalDate,
\* leaveStartDate and leaveEndDate of a stored staff record is populated,
\* and the populated one matches the record's employmentStatus.
C10_AtMostOneOfFour ==
    \A i \in DOMAIN staff :
        /\ PopulatedDates(staff[i]) <= 1
        /\ staff[i].retirementDate # NoDate => staff[i].employmentStatus = "retired"
        /\ staff[i].dismissalDate # NoDate => staff[i].employmentStatus = "dismissed"
        /\ staff[i].leaveStartDate # NoDate => staff[i].employmentStatus = "on_leave"
        /\ staff[i].leaveEndDate # NoDate => staff[i].employmentStatus = "on_leave"

\* C10, amended: at most one of retirementDate, dismissalDate and
\* leaveStartDate is populated and it matches the employmentStatus;
\* leaveEndDate is populated only on a record that is on_leave, next to its
\* leaveStartDate.
C10_OneOfThreeAndLeaveEnd ==
    \A i \in DOMAIN staff :
        /\ PopulatedDates([staff[i] EXCEPT !.leaveEndDate = NoDate]) <= 1
        /\ staff[i].retirementDate # NoDate => staff[i].employmentStatus = "retired"
        /\ staff[i].dismissalDate # NoDate => staff[i].employmentStatus = "dismissed"
        /\ staff[i].leaveStartDate # NoDate => staff[i].employmentStatus = "on_leave"
        /\ staff[i].leaveEndDate # NoDate =>
              /\ staff[i].employmentStatus = "on_leave"
              /\ staff[i].leaveStartDate # NoDate

\* A record on leave that holds both of its leave dates after a PUT.
C10_Witness ==
    /\ last.op = "putStaff" /\ last.status = 200 /\ last.ctype = "fields"
    /\ staff[last.id].employmentStatus = "on_leave"
    /\ staff[last.id].leaveStartDate \in Dates
    /\ staff[last.id].leaveEndDate \in Dates

-----------------------------------------------------------------------------
(* Access claims.  An account is bound to the court its circuitCourtId names. *)

\* The operations that target one court: the court of the request, or the
\* court of the staff record of the request.
TargetOps == {"listByCourt", "getStaff", "createStaff", "putStaff"}
ScopeOps == {"listByStatus", "statistics"}

\* The scope the specification gives caller u: for a circuit account its own
\* court and the magisterial courts under it, for a magisterial account its
\* own court.
InScope(u, c) ==
    \/ c = users[u].circuitCourtId
    \/ /\ users[u].role = "circuit"
       /\ CourtExists(courts, c)
       /\ courts[c].type = "magisterial"
       /\ courts[c].circuitCourtId = users[u].circuitCourtId

\* The request served last reached its permission block, for a caller of
\* the given role.
CheckedFor(role) ==
    /\ last.op \in TargetOps
    /\ last.access # "none"
    /\ users[last.caller].role = role

\* The staff records a list or statistics response was computed from
Returned ==
    IF last.op = "statistics" THEN StaffOfCourts(last.scope) ELSE last.list

\* C3: a circuit caller bound to court X is let through by list-by-court,
\* get, create and update when the target court is X or a magisterial court
\* under X.
C3_CircuitGrantedInScope ==
    (CheckedFor("circuit") /\ InScope(last.caller, last.court)) =>
        last.access = "granted"

\* C4: a circuit caller bound to court X is never let through to, and never
\* receives staff of, a court that is neither X nor a magisterial court
\* under X.
C4_CircuitNeverOutOfScope ==
    /\ (CheckedFor("circuit") /\ ~InScope(last.caller, last.court)) =>
            last.access # "granted"
    /\ (/\ last.op \in ScopeOps /\ last.status = 200
        /\ users[last.caller].role = "circuit") =>
            \A i \in Returned : InScope(last.caller, staff[i].courtId)

\* C5: a magisterial caller is let through exactly when the target court is
\* the court the caller is bound to, and receives staff of that court only.
C5_MagisterialOwnCourtOnly ==
    /\ CheckedFor("magisterial") =>
            (last.access = "granted" <=> last.court = users[last.caller].circuitCourtId)
    /\ (/\ last.op \in ScopeOps /\ last.status = 200
        /\ users[last.caller].role = "magisterial") =>
            \A i \in Returned : staff[i].courtId = users[last.caller].circuitCourtId

\* C6: list-by-status and statistics take their staff from: the caller's own
\* court and the magisterial courts under it for a circuit caller, the
\* caller's own court for a magisterial caller, every court for an admin.
C6_ScopeOfListAndStatistics ==
    (last.op \in ScopeOps /\ last.status = 200) =>
        last.scope \cap (1..Len(courts)) =
            IF users[last.caller].role = "admin" THEN 1..Len(courts)
            ELSE {c \in 1..Len(courts) : InScope(last.caller, c)}

\* C7: a caller that is no admin and targets an existing court outside its
\* scope is answered permission-denied by list-by-court, get, create and
\* update: the permission block answers 403 and does not fail.
C7_OutOfScopeIsDenied ==
    (/\ last.op \in TargetOps /\ last.access # "none"
     /\ users[last.caller].role # "admin"
     /\ CourtExists(courts, last.court)
     /\ ~InScope(last.caller, last.court)) =>
        (last.access = "denied" /\ last.status = 403)

-----------------------------------------------------------------------------
(* Court reference claims *)

\* C11: every stored staff record's courtId refers to a stored court whose
\* type equals the record's courtType, and a create or update request that
\* would store a pair that does not resolve this way is refused and changes
\* no staff record.
C11_CourtRefResolves ==
    \A i \in DOMAIN staff :
        /\ CourtExists(courts, staff[i].courtId)
        /\ courts[staff[i].courtId].type = staff[i].courtType

-----------------------------------------------------------------------------
(* User claims *)

\* C12: no request of a user makes that user's own account inactive: a
\* DELETE /users/:id or PUT /users/:id whose caller is its target never
\* turns the target's isActive from true to false.
C12_NeverDeactivatesSelf ==
    [][(/\ last'.op \in {"putUser", "deleteUser"}
        /\ last'.caller = last'.id
        /\ UserExists(users, last'.id)
        /\ users[last'.id].isActive)
       => users'[last'.id].isActive]_vars

\* The body of a POST /users is valid but for its role, and its username is
\* not taken.
OtherwiseValid(b) ==
    /\ UsernameValid(b.username)
    /\ b.password >= MinPasswordLen
    /\ NameValid(b.name)
    /\ FindByUsername(users, b.username) = {}

\* C13: a POST /users of an administrator whose input is otherwise valid and
\* whose username is unused stores the account for each role admin, circuit
\* and magisterial, and is refused as a validation failure, storing no
\* account, for any other role.
C13_AllowedRolesCreate ==
    [][\A u \in UserTokens, b \in PostUserBodies :
        (/\ CreateUser(u, b)
         /\ Authenticated(u)
         /\ HasRole(u, {"admin"})
         /\ OtherwiseValid(b))
        => IF b.role \in Roles
           THEN last'.status = 201 /\ Len(users') = Len(users) + 1
           ELSE last'.status = 400 /\ users' = users]_vars

\* C14: after any interleaving of user-creation requests, two for the same
\* username up to letter case among them, no two stored accounts have
\* usernames that are equal when letter case is ignored.
C14_UsernamesUniqueIgnoringCase ==
    \A i, j \in DOMAIN users :
        i # j => ToLowerCase(users[i].username) # ToLowerCase(users[j].username)

-----------------------------------------------------------------------------
(* Soft deletion *)

\* C15: courts and users are never hard-deleted: every request keeps every
\* stored court id and user id, and a successful DELETE of a user or of a
\* court changes nothing of the target but its isActive, which becomes false.
C15_NeverHardDeleted ==
    [][/\ DOMAIN users \subseteq DOMAIN users'
       /\ DOMAIN courts \subseteq DOMAIN courts'
       /\ (last'.op = "deleteUser" /\ last'.status = 200)
             => users' = [users EXCEPT ![last'.id].isActive = FALSE]
       /\ (last'.op = "deactivateCourt" /\ last'.status = 200)
             => courts' = [courts EXCEPT ![last'.id].isActive = FALSE]]_vars

C15_Witness ==
    /\ last.op = "deleteUser"
    /\ last.status = 200
    /\ last.id \in DOMAIN users
    /\ ~users[last.id].isActive
    /\ \E j \in DOMAIN courts : ~courts[j].isActive

-----------------------------------------------------------------------------
(* Who changes courts *)

CourtOps == {"createCircuit", "createMagisterial", "updateCourt", "deactivateCourt"}

IsAdmin(u) == u \in DOMAIN users /\ users[u].isActive /\ users[u].role = "admin"

-----------------------------------------------------------------------------
(* Staff deletion *)

\* The staff ids that were stored and are no more.
DeletedStaff == (1..staffCreated) \ DOMAIN staff

\* C17: a staff record leaves the store only in a successful DELETE
\* /staff/:id of an administrator, which removes that record alone; a
\* deleted record is found by no later read, update or delete (404 for a
\* caller let through to the lookup, no success for any, no list holds it);
\* a DELETE of a caller that is no admin is refused and leaves the staff
\* records as they were.
C17_DeletedByAdminOnly ==
    [][/\ ~(DOMAIN staff \subseteq DOMAIN staff')
             => /\ last'.op = "deleteStaff" /\ last'.status = 200
                /\ IsAdmin(last'.caller)
                /\ staff' = [i \in DOMAIN staff \ {last'.id} |-> staff[i]]
       /\ (last'.op \in {"getStaff", "putStaff", "deleteStaff"} /\ last'.id \in DeletedStaff)
             => /\ last'.status \in {400, 401, 403, 404}
                /\ staff' = staff
                /\ IsAdmin(last'.caller) /\ last'.status # 400 => last'.status = 404
       /\ last'.list \cap DeletedStaff = {}
       /\ (last'.op = "deleteStaff" /\ ~IsAdmin(last'.caller))
             => last'.status \in {401, 403} /\ staff' = staff]_vars

C17_Witness ==
    /\ last.op = "putStaff"
    /\ last.status = 404
    /\ last.id \in DeletedStaff

-----------------------------------------------------------------------------
(* Status transitions through PUT /staff/:id *)

-----------------------------------------------------------------------------
(* Refused requests *)

\* C19: a request to a user, court or staff route that is answered with a
\* validation failure (400), a permission denial (403) or not found (404)
\* leaves the stored users, courts and staff as they were.
C19_RefusedRequestsWriteNothing ==
    [][last'.status \in {400, 403, 404}
          => users' = users /\ courts' = courts /\ staff' = staff]_vars

\* A PUT /staff/:id that was refused for its body, with a record stored.
C19_Witness ==
    /\ last.op = "putStaff"
    /\ last.status = 400
    /\ StaffExists(staff, last.id)
    /\ \E i \in DOMAIN users : ~users[i].isActive
    /\ \E j \in DOMAIN courts : ~courts[j].isActive

-----------------------------------------------------------------------------
(* Field constraints at creation *)

\* The body of a POST /staff names a status whose date it does not carry.
LacksStatusDate(b) ==
    \/ b.employmentStatus = "retired" /\ b.retirementDate = Absent
    \/ b.employmentStatus = "dismissed" /\ b.dismissalDate = Absent
    \/ b.employmentStatus = "on_leave" /\ b.leaveStartDate = Absent

\* C20: a create request of an administrator whose input violates a field
\* constraint of the data model (a court name shorter than 2 or longer than
\* 100 characters; a staff employmentStatus retired, dismissed or on_leave
\* without its date) is answered with the validation failure (400), not
\* with the storage failure (500), and stores nothing.
C20_ConstraintViolationIsValidationFailure ==
    [][/\ (/\ last'.op \in {"createCircuit", "createMagisterial"}
           /\ IsAdmin(last'.caller)
           /\ (last'.name < MinNameLen \/ last'.name > MaxNameLen))
          => last'.status = 400 /\ courts' = courts
       /\ \A r \in ApiPostStaff : \A uc \in UserCourtChoices(r[1]) :
             (/\ last.op = "none"
              /\ CreateStaff(r[1], r[2], uc)
              /\ IsAdmin(r[1])
              /\ LacksStatusDate(r[2]))
             => last'.status = 400 /\ staff' = staff]_vars

-----------------------------------------------------------------------------
(* What a staff update writes *)

\* C21: a successful PUT /staff/:id whose employmentStatus differs from the
\* stored one leaves name, courtId and courtType of the record as stored,
\* whatever the body supplies for them; one whose employmentStatus is absent
\* or equal to the stored one leaves employmentStatus as stored.
C21_TransitionWritesStatusOnly ==
    [][(last'.op = "putStaff" /\ last'.status = 200)
       => LET d == staff[last'.id]
              e == staff'[last'.id]
          IN IF last'.newStatus \in Statuses /\ last'.newStatus # d.employmentStatus
             THEN /\ e.name = d.name
                  /\ e.courtId = d.courtId
                  /\ e.courtType = d.courtType
                  /\ e.employmentStatus = last'.newStatus
             ELSE e.employmentStatus = d.employmentStatus]_vars

\* A transition to retired whose body held another key as well.
C21_Witness ==
    /\ last.op = "putStaff" /\ last.status = 200 /\ last.ctype = "transition"
    /\ last.newStatus = "retired"
    /\ last.name # Absent
    /\ staff[last.id].employmentStatus = "retired"

-----------------------------------------------------------------------------
(* What a caller that is no admin changes of the accounts *)

UserOps == {"createUser", "putUser", "deleteUser"}

HasAdminRole(u) == u \in DOMAIN users /\ users[u].role = "admin"

\* C22: a user request of a caller whose role is not admin changes no
\* account's role, circuitCourtId or isActive and no field of another
\* account: the accounts after it are the accounts before it, but for the
\* caller's own name.
C22_NonAdminChangesOwnNameOnly ==
    [][(last'.op \in UserOps /\ ~HasAdminRole(last'.caller))
       => \/ users' = users
          \/ /\ last'.caller \in DOMAIN users
             /\ users' = [users EXCEPT ![last'.caller].name = users'[last'.caller].name]]_vars

\* The circuit account gave itself a new name.
C22_Witness ==
    /\ last.op = "putUser" /\ last.status = 200
    /\ last.caller = 2 /\ last.id = 2
    /\ users[2].role = "circuit"
    /\ last.name = MinNameLen
    /\ users[2].name = MinNameLen

-----------------------------------------------------------------------------
(* Tokens of accounts that are inactive or not stored *)

\* C23: while an account is inactive or not stored, every request made with
\* its token is answered by authenticateToken with 401 and reaches no
\* handler: it changes no user, court or staff record.  An account made
\* active again is outside the claim.
C23_InactiveTokenIsRefused ==
    [][(/\ last'.op # "none"
        /\ last'.caller # NoId
        /\ (last'.caller \notin DOMAIN users \/ ~users[last'.caller].isActive))
       => /\ last'.status = 401
          /\ users' = users /\ courts' = courts /\ staff' = staff]_vars

\* The deactivated circuit account asked for a staff update and got 401,
\* while a staff record is stored.
C23_Witness ==
    /\ last.op = "putStaff" /\ last.status = 401
    /\ last.caller = 2
    /\ ~users[2].isActive
    /\ StaffExists(staff, last.id)

-----------------------------------------------------------------------------
(* The last administrator *)

\* C24: from a state with an active administrator, after any interleaving
\* of DELETE /users/:id requests an active administrator remains.
C24_AnActiveAdminRemains ==
    \E i \in DOMAIN users : users[i].role = "admin" /\ users[i].isActive

-----------------------------------------------------------------------------
(* Deactivated courts *)

\* C25: a court whose isActive is false stays inactive through every
\* request, and no request changes the type or the circuitCourtId of a
\* stored court.
C25_DeactivationIsPermanent ==
    [][\A i \in DOMAIN courts :
          /\ i \in DOMAIN courts'
          /\ (~courts[i].isActive => ~courts'[i].isActive)
          /\ courts'[i].type = courts[i].type
          /\ courts'[i].circuitCourtId = courts[i].circuitCourtId]_vars

\* An administrator's update of a deactivated court succeeded and the court
\* is still inactive.
C25_Witness ==
    /\ last.op = "updateCourt" /\ last.status = 200
    /\ last.name = MinNameLen
    /\ ~courts[last.id].isActive
    /\ Len(courts) = MaxCourts

-----------------------------------------------------------------------------
(* Statistics *)

\* The staff records in the scope the specification gives the caller.
StaffInScopeOf(u) ==
    IF users[u].role = "admin" THEN DOMAIN staff
    ELSE {i \in DOMAIN staff : InScope(u, staff[i].courtId)}

\* C26: the statistics of GET /staff/statistics satisfy total = active +
\* retired + dismissed + on_leave, and each count is the number of stored
\* staff records of that status among the courts in the caller's scope
\* (all staff for an admin).
C26_StatisticsCountTheScope ==
    (last.op = "statistics" /\ last.status = 200) =>
        /\ last.stats[1] = last.stats[2] + last.stats[3] + last.stats[4] + last.stats[5]
        /\ last.stats = StatsOf(StaffInScopeOf(last.caller))

\* The sum alone, and the counts for an admin.
SumAndAdminCounts ==
    (last.op = "statistics" /\ last.status = 200) =>
        /\ last.stats[1] = last.stats[2] + last.stats[3] + last.stats[4] + last.stats[5]
        /\ users[last.caller].role = "admin" => last.stats = StatsOf(DOMAIN staff)

-----------------------------------------------------------------------------
(* The in-memory fallback store (MemoryStore) *)
(* The store is one object: three arrays and the id counter.  An async     *)
(* method runs without interruption up to its first await and between two  *)
(* awaits; only initializeSampleData and createUser await (bcrypt.hash).    *)
(* pending[0] is the call of initializeSampleData the constructor started   *)
(* and did not await; pending[r], r > 0, is a call of createUser.  The data *)
(* passed to the create methods carry the fields of the sample records,     *)
(* without an id.                                                           *)

MaxCreates == 2

MaxTargets == 1

\* What find returns when no element satisfies the test.
Undefined == [undefined |-> TRUE]

\* Array.prototype.find: the first element that satisfies the test, or
\* undefined.
ArrayFind(arr, id) ==
    LET hits == {i \in DOMAIN arr : arr[i].id = id}
    IN IF hits = {} THEN Undefined
       ELSE arr[CHOOSE i \in hits : \A j \in hits : i <= j]

findUserById(id) == ArrayFind(memoryStore.users, id)

findCourtById(id) == ArrayFind(memoryStore.courts, id)

findStaffById(id) == ArrayFind(memoryStore.staff, id)

\* The record initializeSampleData holds across its await: the one sample
\* user, whose id was taken before the await.
SampleUsers(id) == <<[id |-> id, role |-> "admin", isActive |-> TRUE]>>

\* The four sample courts, their ids taken in order from n.
SampleCourts(n) ==
    [i \in 1..4 |-> [id |-> n + i - 1,
                     type |-> IF i <= 2 THEN "circuit" ELSE "magisterial",
                     isActive |-> TRUE]]

\* The five sample staff, their ids taken in order from n, at the sample
\* courts cs.
SampleStaff(n, cs) ==
    [i \in 1..5 |-> [id |-> n + i - 1,
                     courtId |-> cs[IF i = 1 THEN 1 ELSE i - 1].id,
                     employmentStatus |-> "active"]]

\* How many ids the sample data have taken so far, and how many the create
\* methods have.
SampleIdsTaken == IF pending[0].pc = "hash" THEN 1 ELSE 10

Created == memoryStore.nextId - 1 - SampleIdsTaken

\* initializeSampleData after its await: the three arrays are assigned, one
\* after the other, without another await.
ResumeInitializeSampleData ==
    LET n == memoryStore.nextId
        cs == SampleCourts(n)
    IN
    /\ pending[0].pc = "hash"
    /\ memoryStore' = [users |-> pending[0].users,
                       courts |-> cs,
                       staff |-> SampleStaff(n + 4, cs),
                       nextId |-> n + 9]
    /\ pending' = [pending EXCEPT ![0] = [pc |-> "done", users |-> <<>>]]
    /\ last' = Resp("initializeSampleData", NoId, 0)
    /\ UNCHANGED <<strictQuery, users, courts, staff, staffCreated, now>>

\* createUser up to its await: the id is taken, the hash is started.
CreateUserCall(r, data) ==
    /\ r > 0
    /\ pending[r].pc = "idle"
    /\ Created < MaxCreates
    /\ pending' = [pending EXCEPT ![r] =
                      [pc |-> "hash",
                       user |-> [id |-> memoryStore.nextId, role |-> data.role,
                                 isActive |-> TRUE]]]
    /\ memoryStore' = [memoryStore EXCEPT !.nextId = @ + 1]
    /\ UNCHANGED <<strictQuery, users, courts, staff, staffCreated, now, last>>

\* createUser after its await: the user is pushed and returned.
CreateUserPush(r) ==
    /\ r > 0
    /\ pending[r].pc = "hash"
    /\ memoryStore' = [memoryStore EXCEPT !.users = Append(@, pending[r].user)]
    /\ pending' = [pending EXCEPT ![r] = FreeSlot]
    /\ last' = Resp("createUser", NoId, 0)
    /\ UNCHANGED <<strictQuery, users, courts, staff, staffCreated, now>>

createCourt(data) ==
    LET court == [id |-> memoryStore.nextId, type |-> data.type, isActive |-> TRUE]
    IN
    /\ Created < MaxCreates
    /\ memoryStore' = [memoryStore EXCEPT !.nextId = @ + 1,
                                          !.courts = Append(@, court)]
    /\ last' = Resp("createCourt", NoId, 0)
    /\ UNCHANGED <<strictQuery, users, courts, staff, staffCreated, now, pending>>

createStaff(data) ==
    LET member == [id |-> memoryStore.nextId, courtId |-> data.courtId,
                   employmentStatus |-> data.employmentStatus]
    IN
    /\ Created < MaxCreates
    /\ memoryStore' = [memoryStore EXCEPT !.nextId = @ + 1,
                                          !.staff = Append(@, member)]
    /\ last' = Resp("createStaff", NoId, 0)
    /\ UNCHANGED <<strictQuery, users, courts, staff, staffCreated, now, pending>>

\* updateStaff: the record of that id is replaced by its merge with the
\* update; null when there is none.
updateStaff(id, updateData) ==
    LET hits == {i \in DOMAIN memoryStore.staff : memoryStore.staff[i].id = id}
        index == CHOOSE i \in hits : \A j \in hits : i <= j
    IN
    /\ IF hits = {} THEN UNCHANGED memoryStore
       ELSE memoryStore' =
               [memoryStore EXCEPT !.staff[index].employmentStatus =
                                       updateData.employmentStatus]
    /\ last' = Resp("updateStaff", NoId, 0)
    /\ UNCHANGED <<strictQuery, users, courts, staff, staffCreated, now, pending>>

\* deleteStaff: the record of that id is spliced out; null when there is
\* none.
deleteStaff(id) ==
    LET arr == memoryStore.staff
        hits == {i \in DOMAIN arr : arr[i].id = id}
        index == CHOOSE i \in hits : \A j \in hits : i <= j
    IN
    /\ IF hits = {} THEN UNCHANGED memoryStore
       ELSE memoryStore' =
               [memoryStore EXCEPT !.staff =
                   SubSeq(arr, 1, index - 1) \o SubSeq(arr, index + 1, Len(arr))]
    /\ last' = [Resp("deleteStaff", NoId, 0) EXCEPT
                   !.id = IF hits = {} THEN NoId ELSE id]
    /\ UNCHANGED <<strictQuery, users, courts, staff, staffCreated, now, pending>>

\* The ids updateStaff and deleteStaff are called with: those of the records
\* pushed last, and one that no record has.
StaffTargets ==
    LET arr == memoryStore.staff
    IN {arr[i].id : i \in {j \in DOMAIN arr : j > Len(arr) - MaxTargets}}
           \cup {memoryStore.nextId}

\* The court a new staff record is given: the first sample court when the
\* sample data are assigned before any create.
DataCourtIds == {2}

\* The object as `new MemoryStore()` returns it: the arrays are empty, and
\* initializeSampleData has taken id 1 and waits for its hash.
InitMemory ==
    /\ strictQuery = TRUE
    /\ users = <<>>
    /\ courts = <<>>
    /\ staff = EmptyStaff
    /\ staffCreated = 0
    /\ now = 1
    /\ last = NoResp
    /\ memoryStore = [users |-> <<>>, courts |-> <<>>, staff |-> <<>>, nextId |-> 2]
    /\ pending = [r \in 0..MaxRequests |->
                    IF r = 0 THEN [pc |-> "hash", users |-> SampleUsers(1)]
                    ELSE FreeSlot]

NextMemory ==
    \/ ResumeInitializeSampleData
    \/ \E r \in DOMAIN pending : CreateUserCall(r, [role |-> "circuit"])
    \/ \E r \in DOMAIN pending : CreateUserPush(r)
    \/ \E type \in {"circuit"} : createCourt([type |-> type])
    \/ \E c \in DataCourtIds :
          createStaff([courtId |-> c, employmentStatus |-> "active"])
    \/ \E id \in StaffTargets : updateStaff(id, [employmentStatus |-> "retired"])
    \/ \E id \in StaffTargets : deleteStaff(id)

SpecMemory == InitMemory /\ [][NextMemory]_vars

\* The ids of the three arrays.
IdsOf(arr) == {arr[i].id : i \in DOMAIN arr}

\* C27: in the in-memory store every record that createUser, createCourt or
\* createStaff returned stays retrievable by findUserById, findCourtById or
\* findStaffById until it is deleted, however these calls interleave with
\* initializeSampleData; and no two records of the store share an id.
C27_CreatedStaysRetrievableIdsUnique ==
    [][ /\ \A id \in IdsOf(memoryStore.users) : findUserById(id)' # Undefined
        /\ \A id \in IdsOf(memoryStore.courts) : findCourtById(id)' # Undefined
        /\ \A id \in IdsOf(memoryStore.staff) :
              \/ findStaffById(id)' # Undefined
              \/ last'.op = "deleteStaff" /\ last'.id = id
        /\ LET all == memoryStore'.users \o memoryStore'.courts \o memoryStore'.staff
           IN \A i, j \in DOMAIN all : all[i].id = all[j].id => i = j ]_vars

\* The ids alone: no two records of the store share one.
IdsAreUnique ==
    LET all == memoryStore.users \o memoryStore.courts \o memoryStore.staff
    IN \A i, j \in DOMAIN all : all[i].id = all[j].id => i = j

\* Once initializeSampleData has returned, nothing disappears but by
\* deleteStaff.
RetrievableAfterInitialization ==
    [][ pending[0].pc = "done" =>
          /\ \A id \in IdsOf(memoryStore.users) : findUserById(id)' # Undefined
          /\ \A id \in IdsOf(memoryStore.courts) : findCourtById(id)' # Undefined
          /\ \A id \in IdsOf(memoryStore.staff) :
                \/ findStaffById(id)' # Undefined
                \/ last'.op = "deleteStaff" /\ last'.id = id ]_vars

====
